---- MODULE Spec2Model ----
(***************************************************************************)
(* Heartbeat monitor (js-ojus/heartbeat.go): the scheduler loop of main,   *)
(* the per-tick fan-out of processSites with its counting join on an       *)
(* unbuffered channel, the per-site unit (DNS resolution, protocol probe,  *)
(* alert mails) and the shutdown path.                                     *)
(*                                                                         *)
(* Time is abstract: the ticker may fire at any moment, a network call     *)
(* returns at any later moment or, where the code sets no deadline, never. *)
(***************************************************************************)
EXTENDS Integers, Sequences, FiniteSets, TLC

(***************************************************************************)
(* Bounds of the model.                                                    *)
(***************************************************************************)
\* The largest number of entries of m.conf.Sites.
NSites == 2
Sites == 1 .. NSites

(***************************************************************************)
(* Program constants.                                                      *)
(***************************************************************************)
DefResolverTimeoutMillis == 500
DefHTTPTimeoutMillis == 5000
DefMySQLTimeoutMillis == 5000
DefSQLServerTimeoutMillis == 5000

\* Capacity of the channel ticker.C created by time.NewTicker.
TickerCapTwo == 1 + 1
TickerCap == 1

(***************************************************************************)
(* Configurations.  A site is described by what the unit's control flow    *)
(* reads: whether Server parses as an IP literal, the protocol, the        *)
(* timeouts and the recipients.                                            *)
(***************************************************************************)
SiteKinds ==
    << [Server |-> "host", Protocol |-> "http",      TimeoutMillis |-> 0,
        ConnectionTimeoutMillis |-> 2000, Recipients |-> {"ops"}],
       [Server |-> "ip",   Protocol |-> "mysql",     TimeoutMillis |-> 3000,
        ConnectionTimeoutMillis |-> 0,    Recipients |-> {"ops"}],
       [Server |-> "host", Protocol |-> "sqlserver", TimeoutMillis |-> 0,
        ConnectionTimeoutMillis |-> 0,    Recipients |-> {}],
       [Server |-> "ip",   Protocol |-> "https",     TimeoutMillis |-> 3000,
        ConnectionTimeoutMillis |-> 0,    Recipients |-> {"ops"}],
       [Server |-> "host", Protocol |-> "ftp",       TimeoutMillis |-> 0,
        ConnectionTimeoutMillis |-> 0,    Recipients |-> {"ops"}] >>

\* The site list that starts at kind `off` and takes the kinds in turn.
SiteList(off) ==
    [s \in Sites |-> SiteKinds[((s - 1 + off) % Len(SiteKinds)) + 1]]

\* m.conf after main has set its defaults.  Len is len(m.conf.Sites): the
\* list is the first Len entries of Sites, and no unit is ever launched for
\* an entry beyond them.
Configs ==
    { [ReportDNS |-> r, ResolverTimeoutMillis |-> DefResolverTimeoutMillis,
       Sites |-> SiteList(off), Len |-> n] :
          r \in BOOLEAN, off \in 0 .. (Len(SiteKinds) - 1), n \in 0 .. NSites }

\* net.ParseIP(site.Server) != nil
ParseIP(server) == server = "ip"

IsHTTP(protocol) == protocol \in {"http", "https"}
SupportedAny(protocol) == TRUE
Supported(protocol) == protocol \in {"http", "https", "mysql", "sqlserver"}

VARIABLES
    conf,           \* m.conf, fixed after it is read
    mainPc,         \* main: "init", "call" (inside processSites), "select", "stopped"
    psPc,           \* processSites: "none", "launch" (range loop), "join" (receive loop)
    next,           \* processSites: index of the next site of the range loop
    i,              \* processSites: receives done by the join loop
    inflight,       \* number of processSites calls that have not returned
    trigger,        \* what started the latest call: "none" (the call before the
                    \* loop) or the age of the tick received, as in tickC
    tickC,          \* ticker.C: the buffered ticks, each with its age: "fresh"
                    \* (fired since the latest call returned), "during" (fired
                    \* while the latest call was in flight), "stale" (fired
                    \* before the latest call was made)
    doneClosed,     \* the done channel is closed
    sigInFlight,    \* done was closed while a processSites call was in flight
    upc,            \* unit: position of the goroutine of each site
    site,           \* unit: TimeoutMillis of the unit's own copy of the site
    outcome,        \* unit: "none", "Success", "Failure"
    pending,        \* unit: HTTP threshold alerts still to send
    launches,       \* per site, go statements executed in this call
    resolves,       \* per site, resolveServer calls in this call
    probes,         \* per site, network probes started in this call
    outcomes,       \* per site, primary outcomes produced in this call
    signals,        \* per site, completion signals delivered in this call
    events,         \* per site, alert events raised in this call
    sends,          \* per site, sendGmailAlert calls in this call
    sendFailed,     \* per site, a sendGmailAlert call returned an error to the
                    \* goroutine of the unit (until the goroutine ends)
    unlogged,       \* per site, send errors not written to the log
    unitRun         \* one goroutine of processSites followed statement by
                    \* statement with what it measured and mailed (SpecUnit);
                    \* left at NoRun where the units are followed in Spec

schedVars == << mainPc, psPc, next, i, inflight, trigger >>
chanVars  == << tickC, doneClosed, sigInFlight >>
unitVars  == << upc, site, outcome, pending >>
countVars == << launches, resolves, probes, outcomes, signals >>
alertVars == << events, sends, sendFailed, unlogged >>
progVars == << schedVars, chanVars, unitVars, countVars, alertVars >>
vars == << conf, progVars, unitRun >>

\* l := len(m.conf.Sites)
LenSites == conf.Len

Zero == [s \in Sites |-> 0]

\* The per-call state of the units before any goroutine is launched.
FreshUnits ==
    /\ upc' = [s \in Sites |-> "idle"]
    /\ site' = [s \in Sites |-> conf.Sites[s].TimeoutMillis]
    /\ outcome' = [s \in Sites |-> "none"]
    /\ pending' = [s \in Sites |-> {}]
    /\ launches' = Zero /\ resolves' = Zero /\ probes' = Zero
    /\ outcomes' = Zero /\ signals' = Zero
    /\ events' = Zero /\ sends' = Zero /\ unlogged' = Zero
    /\ sendFailed' = [s \in Sites |-> FALSE]

NoRun == [pc |-> "off"]

\* The state of main, of processSites and of its units before main runs.
InitProgram ==
    /\ mainPc = "init" /\ psPc = "none" /\ next = 1 /\ i = 0
    /\ inflight = 0 /\ trigger = "none"
    /\ tickC = << >>
    /\ doneClosed = FALSE /\ sigInFlight = FALSE
    /\ upc = [s \in Sites |-> "idle"]
    /\ site = [s \in Sites |-> conf.Sites[s].TimeoutMillis]
    /\ outcome = [s \in Sites |-> "none"]
    /\ pending = [s \in Sites |-> {}]
    /\ launches = Zero /\ resolves = Zero /\ probes = Zero
    /\ outcomes = Zero /\ signals = Zero
    /\ events = Zero /\ sends = Zero /\ unlogged = Zero
    /\ sendFailed = [s \in Sites |-> FALSE]

\* A configuration of NSites sites.
Init ==
    /\ conf \in {c \in Configs : c.Len = NSites}
    /\ InitProgram
    /\ unitRun = NoRun

\* The age of a tick that fires now.
Age == IF inflight = 0 THEN "fresh" ELSE "during"


(***************************************************************************)
(* The ticker and the shutdown signal (the environment of main).           *)
(***************************************************************************)
\* The ticker fires: the runtime sends on ticker.C without blocking, so the
\* tick is buffered when the channel has room and is lost otherwise.
Tick ==
    /\ mainPc # "stopped"
    /\ Len(tickC) < TickerCap
    /\ tickC' = Append(tickC, Age)
    /\ UNCHANGED << conf, unitRun, schedVars, doneClosed, sigInFlight,
                    unitVars, countVars, alertVars >>

\* SIGINT or SIGTERM arrives: the signal goroutine closes done.
ShutdownSent ==
    /\ mainPc # "stopped"
    /\ ~doneClosed
    /\ doneClosed' = (mainPc = "select")
    /\ sigInFlight' = (inflight # 0)
    /\ UNCHANGED << conf, unitRun, schedVars, tickC,
                    unitVars, countVars, alertVars >>

Shutdown ==
    /\ mainPc # "stopped"
    /\ ~doneClosed
    /\ doneClosed' = TRUE
    /\ sigInFlight' = (inflight # 0)
    /\ UNCHANGED << conf, unitRun, schedVars, tickC,
                    unitVars, countVars, alertVars >>

(***************************************************************************)
(* main and processSites.                                                  *)
(***************************************************************************)
\* Entry of processSites: l := len(m.conf.Sites); ch := make(chan bool).
CallProcessSites(trig) ==
    /\ inflight' = inflight + 1
    /\ psPc' = IF LenSites = 0 THEN "join" ELSE "launch"
    /\ next' = 1
    /\ i' = 0
    /\ trigger' = trig
    /\ FreshUnits

\* main: the dispatch made before the loop is entered.
StartFirstSkipped ==
    /\ mainPc = "init"
    /\ mainPc' = "select"
    /\ UNCHANGED << conf, unitRun, psPc, next, i, inflight, trigger, chanVars,
                    unitVars, countVars, alertVars >>

StartFirst ==
    /\ mainPc = "init"
    /\ mainPc' = "call"
    /\ CallProcessSites("none")
    /\ UNCHANGED << conf, unitRun, tickC, doneClosed, sigInFlight >>

\* main: case <-ticker.C: m.processSites()
SelectTickAsync ==
    /\ mainPc = "select"
    /\ tickC # << >>
    /\ tickC' = [k \in 1 .. (Len(tickC) - 1) |-> "stale"]
    /\ mainPc' = "select"
    /\ CallProcessSites(Head(tickC))
    /\ UNCHANGED << conf, unitRun, doneClosed, sigInFlight >>

SelectTick ==
    /\ mainPc = "select"
    /\ tickC # << >>
    /\ tickC' = [k \in 1 .. (Len(tickC) - 1) |-> "stale"]
    /\ mainPc' = "call"
    /\ CallProcessSites(Head(tickC))
    /\ UNCHANGED << conf, unitRun, doneClosed, sigInFlight >>

\* main: case <-done: break outer
SelectDoneAnywhere ==
    /\ mainPc \in {"select", "call"}
    /\ doneClosed
    /\ mainPc' = "stopped"
    /\ UNCHANGED << conf, unitRun, psPc, next, i, inflight, trigger, chanVars,
                    unitVars, countVars, alertVars >>

SelectDone ==
    /\ mainPc = "select"
    /\ doneClosed
    /\ mainPc' = "stopped"
    /\ UNCHANGED << conf, unitRun, psPc, next, i, inflight, trigger, chanVars,
                    unitVars, countVars, alertVars >>

\* processSites: one iteration of the range loop, go func(site, ch){...}.
Launch ==
    /\ psPc = "launch"
    /\ next <= LenSites
    /\ upc' = [upc EXCEPT ![next] = "start"]
    /\ launches' = [launches EXCEPT ![next] = @ + 1]
    /\ next' = next + 1
    /\ psPc' = IF next = LenSites THEN "join" ELSE "launch"
    /\ UNCHANGED << conf, unitRun, mainPc, i, inflight, trigger,
                    chanVars, site, outcome, pending,
                    resolves, probes, outcomes, signals, alertVars >>

\* processSites: the number of receives of the join loop, for l sites.
JoinCountShort(l) == l - 1
JoinCount(l) == l

\* The rendezvous on the unbuffered ch: the deferred ch <- true of the unit
\* of s meets one <-ch of the join loop, and the goroutine ends.
ReceiveInOrder(s) ==
    /\ psPc = "join"
    /\ i < JoinCount(LenSites)
    /\ s = i + 1
    /\ upc[s] = "signal"
    /\ upc' = [upc EXCEPT ![s] = "done"]
    /\ signals' = [signals EXCEPT ![s] = @ + 1]
    /\ i' = i + 1
    /\ sendFailed' = [sendFailed EXCEPT ![s] = FALSE]
    /\ UNCHANGED << conf, unitRun, mainPc, psPc, next, inflight, trigger, chanVars,
                    site, outcome, pending, launches, resolves, probes,
                    outcomes, events, sends, unlogged >>

Receive(s) ==
    /\ psPc = "join"
    /\ i < JoinCount(LenSites)
    /\ upc[s] = "signal"
    /\ upc' = [upc EXCEPT ![s] = "done"]
    /\ signals' = [signals EXCEPT ![s] = @ + 1]
    /\ i' = i + 1
    /\ sendFailed' = [sendFailed EXCEPT ![s] = FALSE]
    /\ UNCHANGED << conf, unitRun, mainPc, psPc, next, inflight, trigger, chanVars,
                    site, outcome, pending, launches, resolves, probes,
                    outcomes, events, sends, unlogged >>

\* processSites returns to main (which prints "." and goes to the select).
Return ==
    /\ psPc = "join"
    /\ i >= JoinCount(LenSites)
    /\ psPc' = "none"
    /\ mainPc' = IF mainPc = "call" THEN "select" ELSE mainPc
    /\ inflight' = inflight - 1
    /\ UNCHANGED << conf, unitRun, next, i, trigger,
                    chanVars, unitVars, countVars, alertVars >>

(***************************************************************************)
(* The unit of work of one site: the goroutine launched by processSites.   *)
(* upc: "idle" (not launched), "start", "resolveServer" (inside the        *)
(* lookup), "alertDNS", "alertDNSTime", "alertHTTP", "alertProbe" (inside  *)
(* the sendGmailAlert call of that place), "probe" (inside the network     *)
(* probe of isServerUp), "signal" (blocked in the deferred ch <- true),    *)
(* "done".                                                                 *)
(***************************************************************************)
\* isServerUp: the timeout the probe runs with, written to the unit's copy.
ResolvedTimeoutNoDefault(protocol, timeoutMillis) == timeoutMillis

ResolvedTimeout(protocol, timeoutMillis) ==
    IF timeoutMillis # 0 THEN timeoutMillis
    ELSE IF IsHTTP(protocol) THEN DefHTTPTimeoutMillis
    ELSE IF protocol = "mysql" THEN DefMySQLTimeoutMillis
    ELSE IF protocol = "sqlserver" THEN DefSQLServerTimeoutMillis
    ELSE timeoutMillis

\* isServerUp writes site.TimeoutMillis through the pointer it is given: the
\* goroutine passes &site, the address of its own parameter, a copy of the
\* entry of m.conf.Sites.
WriteTimeoutShared(s, v) ==
    /\ site' = [site EXCEPT ![s] = v]
    /\ conf' = [conf EXCEPT !.Sites[s].TimeoutMillis = v]

WriteTimeout(s, v) ==
    /\ site' = [site EXCEPT ![s] = v]
    /\ UNCHANGED conf

\* The unit reaches `if err := m.isServerUp(&site)`.  A supported protocol
\* starts its network probe; any other protocol makes isServerUp return the
\* "unhandled protocol" error at once, and the unit calls sendGmailAlert.
EnterIsServerUp(s) ==
    IF Supported(conf.Sites[s].Protocol)
    THEN /\ upc' = [upc EXCEPT ![s] = "probe"]
         /\ WriteTimeout(s, ResolvedTimeout(conf.Sites[s].Protocol, site[s]))
         /\ probes' = [probes EXCEPT ![s] = @ + 1]
         /\ UNCHANGED << outcome, outcomes, events, sends >>
    ELSE /\ upc' = [upc EXCEPT ![s] = "alertProbe"]
         /\ outcome' = [outcome EXCEPT ![s] = "Failure"]
         /\ outcomes' = [outcomes EXCEPT ![s] = @ + 1]
         /\ events' = [events EXCEPT ![s] = @ + 1]
         /\ sends' = [sends EXCEPT ![s] = @ + 1]
         /\ UNCHANGED << conf, site, probes >>

\* The goroutine runs up to its first blocking call.
UnitBeginNoResolve(s) ==
    /\ upc[s] = "start"
    /\ EnterIsServerUp(s)
    /\ UNCHANGED << unitRun, schedVars, chanVars, pending, launches, signals,
                    resolves, sendFailed, unlogged >>

UnitBegin(s) ==
    /\ upc[s] = "start"
    /\ IF conf.ReportDNS /\ ~ParseIP(conf.Sites[s].Server)
       THEN /\ upc' = [upc EXCEPT ![s] = "resolveServer"]
            /\ resolves' = [resolves EXCEPT ![s] = @ + 1]
            /\ UNCHANGED << conf, site, probes, outcome, outcomes, events,
                            sends >>
       ELSE /\ EnterIsServerUp(s)
            /\ UNCHANGED resolves
    /\ UNCHANGED << unitRun, schedVars, chanVars, pending, launches, signals,
                    sendFailed, unlogged >>

\* m.resolveServer returns: an error, or the addresses after a time that is
\* at least ("slow") or less than ("fast") m.conf.ResolverTimeoutMillis.
ResolveReturn(s) ==
    /\ upc[s] = "resolveServer"
    /\ \E r \in {"error", "slow", "fast"} :
          CASE r = "error" ->
                 /\ upc' = [upc EXCEPT ![s] = "alertDNS"]
                 /\ outcome' = [outcome EXCEPT ![s] = "Failure"]
                 /\ outcomes' = [outcomes EXCEPT ![s] = @ + 1]
                 /\ events' = [events EXCEPT ![s] = @ + 1]
                 /\ sends' = [sends EXCEPT ![s] = @ + 1]
                 /\ UNCHANGED << conf, site, probes >>
            [] r = "slow" ->
                 /\ upc' = [upc EXCEPT ![s] = "alertDNSTime"]
                 /\ events' = [events EXCEPT ![s] = @ + 1]
                 /\ sends' = [sends EXCEPT ![s] = @ + 1]
                 /\ UNCHANGED << conf, site, probes, outcome, outcomes >>
            [] r = "fast" -> EnterIsServerUp(s)
    /\ UNCHANGED << unitRun, schedVars, chanVars, pending, launches, resolves,
                    signals, sendFailed, unlogged >>

\* The log records zLog.Error("alert", ...) written for the result dErr of
\* one sendGmailAlert call.
AlertErrorsDropped(dErr) == 0
AlertErrorsLogged(dErr) == IF dErr = "error" THEN 1 ELSE 0

\* sendGmailAlert returns dErr ("nil" or "error") to the unit of s.
AlertResult(s, dErr) ==
    /\ sendFailed' = [sendFailed EXCEPT ![s] = @ \/ dErr = "error"]
    /\ unlogged' = [unlogged EXCEPT ![s] =
                       @ + (IF dErr = "error" THEN 1 ELSE 0) - AlertErrorsLogged(dErr)]

\* The alert of a failed resolution was sent (or not): the unit returns.
AlertDNSReturnFallThrough(s) ==
    /\ upc[s] = "alertDNS"
    /\ \E dErr \in {"nil", "error"} : AlertResult(s, dErr)
    /\ EnterIsServerUp(s)
    /\ UNCHANGED << unitRun, schedVars, chanVars, pending, launches, resolves,
                    signals >>

AlertDNSReturn(s) ==
    /\ upc[s] = "alertDNS"
    /\ \E dErr \in {"nil", "error"} : AlertResult(s, dErr)
    /\ upc' = [upc EXCEPT ![s] = "signal"]
    /\ UNCHANGED << conf, unitRun, schedVars, chanVars, site, outcome, pending,
                    countVars, events, sends >>

\* The alert of a slow resolution was sent (or not): the unit goes on.
AlertDNSTimeReturn(s) ==
    /\ upc[s] = "alertDNSTime"
    /\ \E dErr \in {"nil", "error"} : AlertResult(s, dErr)
    /\ EnterIsServerUp(s)
    /\ UNCHANGED << unitRun, schedVars, chanVars, pending, launches, resolves,
                    signals >>

\* The secondary thresholds of checkHTTPx, in the order the code tests them:
\* 1 resolve time, 2 connection + TLS time, 3 processing time.
Thresholds == {1, 2, 3}

\* The threshold sets a response can breach.  Without trace events for DNS
\* (a literal address) tResolve is 0, below the resolver timeout; with
\* ConnectionTimeoutMillis left at 0 the test tConnection + tTLS >= 0 holds.
BreachSets(s) ==
    { B \in SUBSET Thresholds :
        /\ (ParseIP(conf.Sites[s].Server) => 1 \notin B)
        /\ (conf.Sites[s].ConnectionTimeoutMillis = 0 => 2 \in B) }

First(B) == CHOOSE b \in B : \A c \in B : b <= c

\* The probe failed: isServerUp returns the error, the unit calls
\* sendGmailAlert with it.
ProbeFailedNoAlert(s) ==
    /\ upc' = [upc EXCEPT ![s] = "signal"]
    /\ outcome' = [outcome EXCEPT ![s] = "Failure"]
    /\ outcomes' = [outcomes EXCEPT ![s] = @ + 1]
    /\ UNCHANGED << pending, events, sends >>

ProbeFailed(s) ==
    /\ upc' = [upc EXCEPT ![s] = "alertProbe"]
    /\ outcome' = [outcome EXCEPT ![s] = "Failure"]
    /\ outcomes' = [outcomes EXCEPT ![s] = @ + 1]
    /\ events' = [events EXCEPT ![s] = @ + 1]
    /\ sends' = [sends EXCEPT ![s] = @ + 1]
    /\ UNCHANGED pending

\* checkHTTPx: RoundTrip returns.  "transport": an error; "status": a
\* response whose status is refused; "ok": a response whose status is accepted,
\* after which the thresholds are tested and each breach is mailed in turn.
\* The status settles the primary outcome: past the switch on StatusCode
\* checkHTTPx returns nil whatever the mails do.
HTTPReturn(s) ==
    /\ upc[s] = "probe"
    /\ IsHTTP(conf.Sites[s].Protocol)
    /\ \E res \in {"transport", "status", "ok"} :
          IF res # "ok"
          THEN ProbeFailed(s)
          ELSE \E B \in BreachSets(s) :
                 /\ outcome' = [outcome EXCEPT ![s] = "Success"]
                 /\ outcomes' = [outcomes EXCEPT ![s] = @ + 1]
                 /\ pending' = [pending EXCEPT ![s] = B]
                 /\ IF B = {}
                    THEN /\ upc' = [upc EXCEPT ![s] = "signal"]
                         /\ UNCHANGED << events, sends >>
                    ELSE /\ upc' = [upc EXCEPT ![s] = "alertHTTP"]
                         /\ events' = [events EXCEPT ![s] = @ + 1]
                         /\ sends' = [sends EXCEPT ![s] = @ + 1]
    /\ UNCHANGED << conf, unitRun, schedVars, chanVars, site, launches, resolves,
                    probes, signals, sendFailed, unlogged >>

\* checkMySQL, checkSQLServer: the query returns, with an error (the deadline
\* of the context included) or with a row.
SQLReturn(s) ==
    /\ upc[s] = "probe"
    /\ conf.Sites[s].Protocol \in {"mysql", "sqlserver"}
    /\ \E res \in {"error", "ok"} :
          IF res = "error"
          THEN ProbeFailed(s)
          ELSE /\ outcome' = [outcome EXCEPT ![s] = "Success"]
               /\ outcomes' = [outcomes EXCEPT ![s] = @ + 1]
               /\ upc' = [upc EXCEPT ![s] = "signal"]
               /\ UNCHANGED << pending, events, sends >>
    /\ UNCHANGED << conf, unitRun, schedVars, chanVars, site, launches, resolves,
                    probes, signals, sendFailed, unlogged >>

\* checkHTTPx: the mail of one breached threshold was sent (or not); the
\* next breached threshold is mailed, or checkHTTPx returns nil.
AlertHTTPReturn(s) ==
    /\ upc[s] = "alertHTTP"
    /\ \E dErr \in {"nil", "error"} : AlertResult(s, dErr)
    /\ LET rest == pending[s] \ {First(pending[s])}
       IN /\ pending' = [pending EXCEPT ![s] = rest]
          /\ IF rest = {}
             THEN /\ upc' = [upc EXCEPT ![s] = "signal"]
                  /\ UNCHANGED << events, sends >>
             ELSE /\ upc' = [upc EXCEPT ![s] = "alertHTTP"]
                  /\ events' = [events EXCEPT ![s] = @ + 1]
                  /\ sends' = [sends EXCEPT ![s] = @ + 1]
    /\ UNCHANGED << conf, unitRun, schedVars, chanVars, site, outcome, countVars >>

\* The alert of a failed probe was sent (or not): the unit function ends.
AlertProbeReturn(s) ==
    /\ upc[s] = "alertProbe"
    /\ \E dErr \in {"nil", "error"} : AlertResult(s, dErr)
    /\ upc' = [upc EXCEPT ![s] = "signal"]
    /\ UNCHANGED << conf, unitRun, schedVars, chanVars, site, outcome, pending,
                    countVars, events, sends >>

UnitStep(s) ==
    \/ UnitBegin(s)
    \/ ResolveReturn(s)
    \/ AlertDNSReturn(s)
    \/ AlertDNSTimeReturn(s)
    \/ HTTPReturn(s)
    \/ SQLReturn(s)
    \/ AlertHTTPReturn(s)
    \/ AlertProbeReturn(s)

Next ==
    \/ Tick
    \/ Shutdown
    \/ StartFirst
    \/ SelectTick
    \/ SelectDone
    \/ Launch
    \/ Return
    \/ \E s \in Sites : Receive(s)
    \/ \E s \in Sites : UnitStep(s)

Spec == Init /\ [][Next]_vars

\* The same program for the site lists of every length, the empty one
\* included.
InitLists ==
    /\ conf \in Configs
    /\ InitProgram
    /\ unitRun = NoRun

SpecLists == InitLists /\ [][Next]_vars

(***************************************************************************)
(* Fairness.  The scheduler and the goroutines run; the ticker fires until *)
(* it is stopped; a select with both channels ready picks either, so a     *)
(* closed done is picked sooner or later (strong fairness).  A DNS lookup  *)
(* ends (the resolver bounds every exchange) and a SQL probe ends (its     *)
(* query runs under a context deadline).  RoundTrip in checkHTTPx and      *)
(* smtp.SendMail in sendGmailAlert run under no deadline: nothing makes    *)
(* them return.  The shutdown signal may never come.                       *)
(***************************************************************************)
SchedulerFairness ==
    /\ WF_vars(Tick)
    /\ WF_vars(StartFirst)
    /\ WF_vars(SelectTick)

Fairness ==
    /\ SchedulerFairness
    /\ SF_vars(SelectDone)
    /\ WF_vars(Launch)
    /\ WF_vars(Return)
    /\ \A s \in Sites :
          /\ WF_vars(Receive(s))
          /\ WF_vars(UnitBegin(s))
          /\ WF_vars(ResolveReturn(s))
          /\ WF_vars(SQLReturn(s))

\* Only main and the ticker are fair: a call of processSites may never return.
FairSpecScheduler == Spec /\ SchedulerFairness

FairSpec == Spec /\ Fairness

\* The same, with probed HTTP servers that always answer or refuse.
FairSpecAnswering == FairSpec /\ \A s \in Sites : WF_vars(HTTPReturn(s))

\* FairSpec with a mail server that always accepts or refuses the alert.
FairSpecMailReturns ==
    FairSpec /\ \A s \in Sites :
                   /\ WF_vars(AlertDNSReturn(s))
                   /\ WF_vars(AlertDNSTimeReturn(s))
                   /\ WF_vars(AlertHTTPReturn(s))
                   /\ WF_vars(AlertProbeReturn(s))


(***************************************************************************)
(* A run-time panic inside a probe.  Neither processSites nor a probe      *)
(* calls recover(): the panicking goroutine runs its deferred functions,   *)
(* here the send on ch, and when the last of them has returned the         *)
(* run-time ends the whole process.  SpecFault adds that to Spec.          *)
(***************************************************************************)

\* A statement of the probe of s panics; the deferred ch <- true is next.
Panic(s) ==
    /\ upc[s] = "probe"
    /\ upc' = [upc EXCEPT ![s] = "panicking"]
    /\ UNCHANGED << conf, unitRun, schedVars, chanVars, site, outcome, pending,
                    countVars, alertVars >>

\* The join loop receives the deferred send of the panicking goroutine;
\* the deferred function returns, nothing has recovered, the process exits.
ReceivePanicking(s) ==
    /\ psPc = "join"
    /\ i < JoinCount(LenSites)
    /\ upc[s] = "panicking"
    /\ upc' = [upc EXCEPT ![s] = "panicked"]
    /\ signals' = [signals EXCEPT ![s] = @ + 1]
    /\ i' = i + 1
    /\ mainPc' = "crashed"
    /\ UNCHANGED << conf, unitRun, psPc, next, inflight, trigger, chanVars,
                    site, outcome, pending, launches, resolves, probes,
                    outcomes, events, sends, sendFailed, unlogged >>

\* Every goroutine of a process that has exited has stopped.
Alive == mainPc # "crashed" /\ Next

NextFault ==
    \/ Alive
    \/ \E s \in Sites : mainPc # "crashed" /\ Panic(s)
    \/ \E s \in Sites : mainPc # "crashed" /\ ReceivePanicking(s)

SpecFault == Init /\ [][NextFault]_vars

(***************************************************************************)
(* One unit, statement by statement.  SpecUnit follows a single goroutine  *)
(* of processSites through the resolution block, isServerUp and the probe  *)
(* and keeps what Spec abstracts from: the durations measured, the status  *)
(* of the response, the error returned and every sendGmailAlert call with  *)
(* its arguments.  The site and the answers of the network are drawn from  *)
(* the sets below; main and the other units stay as they are before main   *)
(* runs.                                                                   *)
(***************************************************************************)
\* The sites a unit is run for.
UnitSites ==
    [Server : {"host", "ip"},
     Protocol : {"http", "https", "mysql", "sqlserver", "ftp"},
     TimeoutMillis : {0, 3000},
     TimeoutSeconds : {0, 3},
     ConnectionTimeoutMillis : {0, 2000},
     Accept403 : BOOLEAN,
     Recipients : {{}, {"ops"}}]

\* time.Since(trb).Milliseconds() of a resolveServer call that succeeded.
LookupMillis == {499, 500, 501}

\* resp.StatusCode of the responses.
Statuses == {200, 204, 301, 403, 500}

\* Durations, in ms, of the phases of a round trip that got a response: the
\* lookup made by the transport, the connect, the TLS handshake, and the wait
\* for the first byte of the response.
ResolveMillis == {20, 500}
ConnectMillis == {30, 2000}
TLSMillis == {40}
ProcessingMillis == {50, 3000, 5000}

\* Instants are counted in ms; ZeroTime is the zero time.Time the stamps are
\* declared with, start is the instant taken before RoundTrip.
ZeroTime == 0
start == 1000

\* t.Sub(u).Milliseconds()
Sub(t_, u_) == t_ - u_

\* The stamps the ClientTrace callbacks have written when RoundTrip returns a
\* response after a lookup of r ms, a connect of c ms, a handshake of h ms and
\* a wait of w ms.  The transport looks no name up for an IP literal and
\* makes no handshake for http: those callbacks are not called and their
\* stamps keep the zero value.
Trace(st, r, c, h, w) ==
    LET lit == ParseIP(st.Server)
        tls == st.Protocol = "https"
        cs  == IF lit THEN start ELSE start + r
        cd  == cs + c
        td  == IF tls THEN cd + h ELSE cd
    IN [tDNSStart     |-> IF lit THEN ZeroTime ELSE start,
        tDNSDone      |-> IF lit THEN ZeroTime ELSE start + r,
        tConnectStart |-> cs,
        tConnectDone  |-> cd,
        tTLSStart     |-> IF tls THEN cd ELSE ZeroTime,
        tTLSDone      |-> IF tls THEN td ELSE ZeroTime,
        tFirstByte    |-> td + w]

\* tResolve := tDNSDone.Sub(tDNSStart).Milliseconds()
TResolveSinceStart(tr) == Sub(tr.tDNSDone, start)
TResolve(tr) == Sub(tr.tDNSDone, tr.tDNSStart)

\* checkHTTPx, "Write metrics."
Metrics(tr) ==
    LET tResolve    == TResolve(tr)
        tConnection == Sub(tr.tConnectDone, tr.tConnectStart)
        tTLS        == Sub(tr.tTLSDone, tr.tTLSStart)
        ttfb        == Sub(tr.tFirstByte, start)
        tProcessing == ttfb - tTLS - tConnection - tResolve
    IN [tResolve |-> tResolve, tConnection |-> tConnection, tTLS |-> tTLS,
        ttfb |-> ttfb, tProcessing |-> tProcessing,
        tServer |-> tConnection + tTLS + tProcessing]

NoMetrics ==
    [tResolve |-> 0, tConnection |-> 0, tTLS |-> 0, ttfb |-> 0,
     tProcessing |-> 0, tServer |-> 0]

\* The test of a measured duration against its limit: dur >= limit.
LimitExceeded(dur, limit) == dur > limit
LimitReached(dur, limit) == dur >= limit

\* checkHTTPx, switch on resp.StatusCode: the statuses that do not return an
\* error.
StatusAcceptedAny403(status, accept403) == status = 200 \/ status = 403
StatusAccepted(status, accept403) ==
    status = 200 \/ (status = 403 /\ accept403)

NilErr == [kind |-> "nil", code |-> 0]

\* One sendGmailAlert(site.Recipients, svc, site.Server, err) call: who made
\* it, its svc argument, its recipients and whether err is the error of a
\* failure ("error") or of a limit reached ("limit").
Alert(st, by, svc, why) ==
    [by |-> by, svc |-> svc, to |-> st.Recipients, why |-> why]

\* checkHTTPx, after writeInfo(): the alerts of the three limits, in order.
ThresholdAlertsOnTtfb(st, m) ==
    (IF LimitReached(m.tResolve, conf.ResolverTimeoutMillis)
        THEN << Alert(st, "checkHTTPx", "dns", "limit") >> ELSE << >>)
    \o (IF LimitReached(m.tConnection + m.tTLS, st.ConnectionTimeoutMillis)
        THEN << Alert(st, "checkHTTPx", "connection + TLS", "limit") >>
        ELSE << >>)
    \o (IF LimitReached(m.ttfb, st.TimeoutMillis)
        THEN << Alert(st, "checkHTTPx", st.Protocol, "limit") >> ELSE << >>)

ThresholdAlerts(st, m) ==
    (IF LimitReached(m.tResolve, conf.ResolverTimeoutMillis)
        THEN << Alert(st, "checkHTTPx", "dns", "limit") >> ELSE << >>)
    \o (IF LimitReached(m.tConnection + m.tTLS, st.ConnectionTimeoutMillis)
        THEN << Alert(st, "checkHTTPx", "connection + TLS", "limit") >>
        ELSE << >>)
    \o (IF LimitReached(m.tProcessing, st.TimeoutMillis)
        THEN << Alert(st, "checkHTTPx", st.Protocol, "limit") >> ELSE << >>)

\* One record written by a probe through zLog: its level, the field that
\* tells what it reports ("error", "status" with "error", or the timings
\* ending in "total"), and the milliseconds reported, if any.
LogRecord(level, what, ms) == [level |-> level, what |-> what, ms |-> ms]

\* What happens to a SQL probe: sqlx.Open refuses the data source ("open");
\* the first use of the handle cannot connect ("unreachable"); the server
\* refuses the query ("query"); the deadline of the context passes
\* ("deadline"); or a row comes back ("none").  A context whose deadline is
\* time.Now() is done before GetContext looks at it.
SQLFaults(deadline) ==
    IF deadline = 0 THEN {"open", "deadline"}
    ELSE {"none", "open", "unreachable", "query", "deadline"}

\* te.Sub(tb).Milliseconds() of a GetContext call that returned a row.
QueryMillis == {10, 2999}

NewRun(st) ==
    [pc |-> "go", site |-> st, lookups |-> 0, resolved |-> "no", dur |-> 0,
     probed |-> FALSE, rt |-> "no", status |-> 0, metrics |-> NoMetrics,
     err |-> NilErr, alerts |-> << >>, outcome |-> "none",
     logs |-> << >>, fault |-> "none", deadline |-> 0, elapsed |-> 0,
     opened |-> 0, closed |-> 0]

InitUnit ==
    /\ conf \in {c \in Configs : c.Sites = SiteList(0) /\ c.Len = NSites}
    /\ InitProgram
    /\ unitRun \in {NewRun(st) : st \in UnitSites}

\* The goroutine, from its start to the call of isServerUp: the resolution
\* block.
RunResolve ==
    /\ unitRun.pc = "go"
    /\ IF conf.ReportDNS /\ ~ParseIP(unitRun.site.Server)
       THEN \E failed \in BOOLEAN, dur \in LookupMillis :
               IF failed
               THEN unitRun' =
                      [unitRun EXCEPT
                         !.pc = "end", !.lookups = @ + 1,
                         !.resolved = "error", !.outcome = "Failure",
                         !.alerts = Append(@, Alert(unitRun.site,
                                        "processSites", "dns", "error"))]
               ELSE unitRun' =
                      [unitRun EXCEPT
                         !.pc = "isServerUp", !.lookups = @ + 1,
                         !.resolved = "ok", !.dur = dur,
                         !.alerts =
                            IF LimitReached(dur, conf.ResolverTimeoutMillis)
                            THEN Append(@, Alert(unitRun.site,
                                        "processSites", "dns", "limit"))
                            ELSE @]
       ELSE unitRun' = [unitRun EXCEPT !.pc = "isServerUp"]
    /\ UNCHANGED << conf, progVars >>

\* The goroutine after isServerUp(&site) has returned err: a non-nil err is
\* mailed, and the goroutine ends.
AfterIsServerUp(u, err) ==
    [u EXCEPT
       !.pc = "end", !.err = err,
       !.outcome = IF err = NilErr THEN "Success" ELSE "Failure",
       !.alerts = IF err = NilErr THEN @
                  ELSE Append(@, Alert(u.site, "processSites",
                                       u.site.Protocol, "error"))]

\* isServerUp: the switch on site.Protocol.
RunIsServerUp ==
    /\ unitRun.pc = "isServerUp"
    /\ LET st == unitRun.site
           u  == [unitRun EXCEPT
                    !.site.TimeoutMillis =
                       ResolvedTimeout(st.Protocol, st.TimeoutMillis)]
       IN unitRun' =
             IF IsHTTP(st.Protocol)
             THEN [u EXCEPT !.pc = "checkHTTPx", !.probed = TRUE]
             ELSE IF st.Protocol = "mysql"
             THEN [u EXCEPT !.pc = "checkMySQL", !.probed = TRUE]
             ELSE IF st.Protocol = "sqlserver"
             THEN [u EXCEPT !.pc = "checkSQLServer", !.probed = TRUE]
             ELSE AfterIsServerUp(unitRun,
                     [kind |-> "unhandled protocol", code |-> 0])
    /\ UNCHANGED << conf, progVars >>

\* checkHTTPx, from http.NewRequest to its return.  "request": NewRequest
\* refuses the method or the URL, writeError(err); "transport": RoundTrip
\* returns an error, which is wrapped and returned; "response": RoundTrip
\* returns a response, writeError2() for a refused status, writeInfo() and
\* the limit tests for an accepted one.
RunCheckHTTPx ==
    /\ unitRun.pc = "checkHTTPx"
    /\ \E res \in {"request", "transport", "response"}, status \in Statuses,
          r \in ResolveMillis, c \in ConnectMillis, h \in TLSMillis,
          w \in ProcessingMillis :
          CASE res = "request" ->
                 unitRun' =
                    AfterIsServerUp(
                       [unitRun EXCEPT
                          !.rt = "error",
                          !.logs = Append(@, LogRecord("error", "error", 0))],
                       [kind |-> "request", code |-> 0])
            [] res = "transport" ->
                 unitRun' =
                    AfterIsServerUp([unitRun EXCEPT !.rt = "error"],
                                    [kind |-> "making request", code |-> 0])
            [] res = "response" ->
                 LET m == Metrics(Trace(unitRun.site, r, c, h, w))
                     u == [unitRun EXCEPT !.rt = "response",
                                          !.status = status, !.metrics = m]
                 IN unitRun' =
                       IF StatusAccepted(status, unitRun.site.Accept403)
                       THEN AfterIsServerUp(
                               [u EXCEPT
                                  !.logs = Append(@,
                                     LogRecord("info", "total", m.ttfb)),
                                  !.alerts =
                                     @ \o ThresholdAlerts(unitRun.site, m)],
                               NilErr)
                       ELSE AfterIsServerUp(
                               [u EXCEPT
                                  !.logs = Append(@,
                                     LogRecord("error", "status", 0))],
                               [kind |-> "HTTP error : status",
                                code |-> status])
    /\ UNCHANGED << conf, progVars >>

\* defer db.Close(), registered once Open has succeeded: the handles closed
\* when the probe returns err.
ClosedOnSuccess(opened, err) == IF err = NilErr THEN opened ELSE 0
ClosedOnReturn(opened, err) == opened

\* A SQL probe of u, from sqlx.Open to its return of err: the handle is
\* opened unless Open fails, the context gets its deadline (in ms), and
\* recs are the records the probe writes.
SQLProbe(u, fault, deadline, ms, err, recs) ==
    LET opened == IF fault = "open" THEN 0 ELSE 1
    IN AfterIsServerUp(
          [u EXCEPT !.fault = fault,
                    !.deadline = IF fault = "open" THEN 0 ELSE deadline,
                    !.elapsed = IF fault = "none" THEN ms ELSE 0,
                    !.opened = opened,
                    !.closed = ClosedOnReturn(opened, err),
                    !.logs = @ \o recs],
          err)

\* checkMySQL: both error returns say "action: connect to database"; the
\* deadline is site.TimeoutSeconds seconds; nothing is logged.
RunCheckMySQL ==
    /\ unitRun.pc = "checkMySQL"
    /\ LET deadline == unitRun.site.TimeoutSeconds * 1000
       IN \E fault \in SQLFaults(deadline), ms \in QueryMillis :
             /\ ms < deadline \/ fault # "none"
             /\ unitRun' =
                   SQLProbe(unitRun, fault, deadline, ms,
                      IF fault = "none" THEN NilErr
                      ELSE [kind |-> "connect to database", code |-> 0],
                      << >>)
    /\ UNCHANGED << conf, progVars >>

\* checkSQLServer: an error of Open is returned as "action: connect to
\* database", an error of GetContext as "action: query database", each
\* after zLog.Error; the deadline is site.TimeoutMillis ms; a row is
\* logged with its "total".
RunCheckSQLServer ==
    /\ unitRun.pc = "checkSQLServer"
    /\ LET deadline == unitRun.site.TimeoutMillis
       IN \E fault \in SQLFaults(deadline), ms \in QueryMillis :
             /\ ms < deadline \/ fault # "none"
             /\ unitRun' =
                   SQLProbe(unitRun, fault, deadline, ms,
                      CASE fault = "none" -> NilErr
                        [] fault = "open" ->
                             [kind |-> "connect to database", code |-> 0]
                        [] OTHER ->
                             [kind |-> "query database", code |-> 0],
                      IF fault = "none"
                      THEN << LogRecord("info", "total", ms) >>
                      ELSE << LogRecord("error", "error", 0) >>)
    /\ UNCHANGED << conf, progVars >>

NextUnit ==
    \/ RunResolve
    \/ RunIsServerUp
    \/ RunCheckHTTPx
    \/ RunCheckMySQL
    \/ RunCheckSQLServer

SpecUnit == InitUnit /\ [][NextUnit]_vars

(***************************************************************************)
(* One round trip of checkHTTPx, callback by callback.  SpecTrace follows  *)
(* the calls the transport makes to the ClientTrace of the request, each   *)
(* of which overwrites its stamp with time.Now(), up to the statements     *)
(* under "Write metrics.".  The transport dials with the zero net.Dialer:  *)
(* for a name it may race a second dial (the fallback) against the first,  *)
(* so ConnectStart and ConnectDone may be called once per dial, from the   *)
(* goroutines of the dials, and the dial that lost may call them after the *)
(* connection is in use.                                                   *)
(***************************************************************************)
\* The sites a round trip is made for; the limits are a few ms, as are the
\* durations below.
TraceSites ==
    [Server : {"host", "ip"},
     Protocol : {"http", "https"},
     TimeoutMillis : {2},
     ConnectionTimeoutMillis : {0, 1},
     Accept403 : {FALSE},
     Recipients : {{"ops"}}]

\* The ms that pass between one event of the round trip and the next.
Elapse == {0, 1}

\* The dials of the transport.
Racers == {"primary", "fallback"}

\* var tDNSStart, tDNSDone, ... tFirstByte time.Time
NoStamps ==
    [tDNSStart |-> ZeroTime, tDNSDone |-> ZeroTime,
     tConnectStart |-> ZeroTime, tConnectDone |-> ZeroTime,
     tTLSStart |-> ZeroTime, tTLSDone |-> ZeroTime, tFirstByte |-> ZeroTime]

\* start := time.Now(); resp, err := _trp.RoundTrip(req)
NewTrace(st) ==
    [pc |-> "RoundTrip", site |-> st, now |-> start, stamps |-> NoStamps,
     dns |-> "no", dial |-> [r \in Racers |-> "no"], conn |-> "none",
     tls |-> "no", byte |-> FALSE, metrics |-> NoMetrics, tTotal |-> 0,
     alerts |-> << >>]

InitTrace ==
    /\ conf \in {c \in Configs : c.Sites = SiteList(0) /\ c.Len = NSites}
    /\ InitProgram
    /\ unitRun \in {NewTrace(st) : st \in TraceSites}

\* d ms pass and callback `stamp` runs: stamp = time.Now()
Stamped(u, stamp, d) ==
    [u EXCEPT !.now = @ + d, !.stamps[stamp] = u.now + d]

\* DNSStart: the transport looks the name up; no lookup for an IP literal.
DNSStart ==
    /\ unitRun.pc = "RoundTrip" /\ unitRun.dns = "no"
    /\ ~ParseIP(unitRun.site.Server)
    /\ \E d \in Elapse :
          unitRun' = [Stamped(unitRun, "tDNSStart", d) EXCEPT !.dns = "started"]
    /\ UNCHANGED << conf, progVars >>

DNSDone ==
    /\ unitRun.pc = "RoundTrip" /\ unitRun.dns = "started"
    /\ \E d \in Elapse :
          unitRun' = [Stamped(unitRun, "tDNSDone", d) EXCEPT !.dns = "done"]
    /\ UNCHANGED << conf, progVars >>

\* ConnectStart: dial r begins.  The fallback dial is made for a name only,
\* and is started after the primary one.
ConnectStart(r) ==
    /\ unitRun.pc = "RoundTrip" /\ unitRun.dial[r] = "no"
    /\ ParseIP(unitRun.site.Server) \/ unitRun.dns = "done"
    /\ r = "fallback" =>
          (~ParseIP(unitRun.site.Server) /\ unitRun.dial["primary"] # "no")
    /\ \E d \in Elapse :
          unitRun' = [Stamped(unitRun, "tConnectStart", d)
                         EXCEPT !.dial[r] = "started"]
    /\ UNCHANGED << conf, progVars >>

\* ConnectDone: dial r ends.  The first dial that ends gives the connection;
\* the other one, cancelled, ends later with an error.
ConnectDone(r) ==
    /\ unitRun.pc = "RoundTrip" /\ unitRun.dial[r] = "started"
    /\ \E d \in Elapse :
          unitRun' = [Stamped(unitRun, "tConnectDone", d)
                         EXCEPT !.dial[r] = "done",
                                !.conn = IF @ = "none" THEN r ELSE @]
    /\ UNCHANGED << conf, progVars >>

\* TLSHandshakeStart, TLSHandshakeDone: for https, on the connection.
TLSHandshakeStart ==
    /\ unitRun.pc = "RoundTrip" /\ unitRun.tls = "no"
    /\ unitRun.site.Protocol = "https" /\ unitRun.conn # "none"
    /\ \E d \in Elapse :
          unitRun' = [Stamped(unitRun, "tTLSStart", d) EXCEPT !.tls = "started"]
    /\ UNCHANGED << conf, progVars >>

TLSHandshakeDone ==
    /\ unitRun.pc = "RoundTrip" /\ unitRun.tls = "started"
    /\ \E d \in Elapse :
          unitRun' = [Stamped(unitRun, "tTLSDone", d) EXCEPT !.tls = "done"]
    /\ UNCHANGED << conf, progVars >>

\* GotFirstResponseByte: the request was written on the connection, after
\* the handshake for https, and the response begins.
GotFirstResponseByte ==
    /\ unitRun.pc = "RoundTrip" /\ ~unitRun.byte
    /\ unitRun.conn # "none"
    /\ unitRun.site.Protocol = "https" => unitRun.tls = "done"
    /\ \E d \in Elapse :
          unitRun' = [Stamped(unitRun, "tFirstByte", d) EXCEPT !.byte = TRUE]
    /\ UNCHANGED << conf, progVars >>

\* RoundTrip returns a response with status 200; "Write metrics." reads the
\* stamps as they are now, writeInfo() logs them and the limits are tested.
WriteMetrics ==
    /\ unitRun.pc = "RoundTrip" /\ unitRun.byte
    /\ \E d \in Elapse :
          LET m == Metrics(unitRun.stamps)
          IN unitRun' =
                [unitRun EXCEPT
                   !.pc = "returned", !.now = @ + d, !.metrics = m,
                   !.tTotal = Sub(unitRun.now + d, start),
                   !.alerts = ThresholdAlerts(unitRun.site, m)]
    /\ UNCHANGED << conf, progVars >>

NextTrace ==
    \/ DNSStart
    \/ DNSDone
    \/ \E r \in Racers : ConnectStart(r)
    \/ \E r \in Racers : ConnectDone(r)
    \/ TLSHandshakeStart
    \/ TLSHandshakeDone
    \/ GotFirstResponseByte
    \/ WriteMetrics

SpecTrace == InitTrace /\ [][NextTrace]_vars

(***************************************************************************)
(* Properties.                                                             *)
(***************************************************************************)
\* A unit that was launched and whose goroutine has not ended.
Running(s) == upc[s] \notin {"idle", "done"}

\* The unit is inside a sendGmailAlert call.
Sending(s) == upc[s] \in {"alertDNS", "alertDNSTime", "alertHTTP", "alertProbe"}

\* C1: whenever no processSites call is in progress (none was made yet, or
\* the latest one has returned), no unit is resolving, probing, sending an
\* alert or waiting to signal.
C1_ReturnsAfterAllUnits ==
    psPc = "none" => \A s \in Sites : ~Running(s)

\* A tick-started call has returned after every unit ran to its end, one of
\* them through a resolution and one through an alert.
C1_Witness ==
    /\ psPc = "none" /\ mainPc = "select" /\ trigger # "none"
    /\ \A s \in Sites : upc[s] = "done"
    /\ \E s \in Sites : resolves[s] = 1
    /\ \E s \in Sites : sends[s] >= 1

\* C2: within one call no site is launched, resolved, probed, given an
\* outcome or signalled more than once, and when the call has returned every
\* site was launched once, has one primary outcome (Success or Failure) and
\* has signalled once.
C2_OneUnitOneOutcome ==
    /\ \A s \in Sites :
          /\ launches[s] <= 1 /\ resolves[s] <= 1 /\ probes[s] <= 1
          /\ outcomes[s] <= 1 /\ signals[s] <= 1
          /\ (outcomes[s] = 1) = (outcome[s] \in {"Success", "Failure"})
    /\ (psPc = "none" /\ mainPc # "init") =>
          \A s \in Sites :
             launches[s] = 1 /\ outcomes[s] = 1 /\ signals[s] = 1

\* A call has returned in which one site failed its resolution (and was not
\* probed) and another was probed with success.
C2_Witness ==
    /\ psPc = "none" /\ mainPc = "select"
    /\ \E s \in Sites : resolves[s] = 1 /\ probes[s] = 0 /\ outcome[s] = "Failure"
    /\ \E s \in Sites : probes[s] = 1 /\ outcome[s] = "Success"

\* C3: at most one processSites call is in flight at any time.
C3_OneDispatchInFlight == inflight <= 1

\* A tick fired while a tick-started call was in flight and waits in
\* ticker.C, with units of that call still running.
C3_Witness ==
    /\ inflight = 1 /\ trigger # "none"
    /\ tickC # << >> /\ tickC[1] = "during"
    /\ \E s \in Sites : Running(s)

\* C4 (as claimed): a call made from the loop is never started by a tick
\* that fired while the previous call was in flight.
C4_TicksDuringDispatchDropped == trigger # "during"

\* C4 (amended): ticker.C keeps at most one tick, so a call made from the
\* loop is started by a tick that fired during the call just before it or
\* after that call returned, never by a tick older than that call.
C4_AtMostOneTickKept ==
    /\ Len(tickC) <= 1
    /\ trigger # "stale"
    /\ \A k \in 1 .. Len(tickC) : tickC[k] # "stale"

\* A call was started by the one tick kept from the call before it, and the
\* next tick that fired during this call is kept in turn.
C4_Witness ==
    /\ trigger = "during" /\ inflight = 1
    /\ tickC = << "during" >>

\* C5: once done is closed, the select of main starts no processSites call.
C5_NoDispatchAfterShutdown ==
    [][(doneClosed /\ mainPc = "select") => inflight' <= inflight]_vars

\* C6: main has left the loop only when no call is in flight and no unit is
\* running.
C6_StoppedMeansNoUnitRunning ==
    mainPc = "stopped" => (inflight = 0 /\ \A s \in Sites : ~Running(s))

\* The shutdown request came while a call was in flight, and main has left
\* the loop after that call ended with all its units.
C6_Witness ==
    /\ mainPc = "stopped" /\ sigInFlight
    /\ \A s \in Sites : upc[s] = "done"

\* C7: a shutdown request is always followed by main leaving the loop.
C7_ShutdownLeadsToStopped == doneClosed ~> (mainPc = "stopped")

\* C8: main leaves its start only by calling processSites, with no tick
\* received; a tick is received only while no call is in flight, and
\* receiving it starts exactly one call; and unless a shutdown is requested
\* or some call never returns, calls are started again and again.
C8_DispatchOnStartAndPerTick ==
    /\ [][/\ (mainPc = "init" /\ mainPc' # "init") =>
                (psPc' = "launch" /\ inflight' = inflight + 1 /\ tickC' = tickC)
          /\ (Len(tickC') < Len(tickC)) =>
                (/\ psPc = "none" /\ inflight = 0
                 /\ psPc' = "launch" /\ inflight' = 1
                 /\ Len(tickC') = Len(tickC) - 1)]_vars
    /\ \/ <>doneClosed
       \/ <>[](psPc # "none")
       \/ []<>(psPc = "launch")

\* A call started by a tick that fired after the call before it had
\* returned, with no shutdown requested.
C8_Witness ==
    /\ mainPc = "call" /\ psPc = "launch" /\ trigger = "fresh"
    /\ inflight = 1 /\ ~doneClosed

\* C9: when the probed servers answer, every processSites call returns,
\* whatever the mail server does with the alerts.
C9_AlertNeverDelaysDispatch == (psPc # "none") ~> (psPc = "none")

\* What one unit holds.
UnitState(s) ==
    << upc[s], site[s], outcome[s], pending[s], launches[s], resolves[s],
       probes[s], outcomes[s], signals[s], events[s], sends[s],
       sendFailed[s], unlogged[s] >>

\* A sendGmailAlert call of the unit of s returns in this step.
SendReturns(s) == Sending(s) /\ UnitState(s)' # UnitState(s)

\* C10: every send error is logged; no alert is sent twice (one send per
\* alert event); an outcome, once produced, stays as it is for the rest of
\* the call; the return of a send, failed or not, moves the unit on to its
\* next statement and touches neither another unit nor the dispatcher,
\* the ticker or the done channel; and at the return of processSites every
\* unit has signalled.
C10_FailedSendIsDeadEnd ==
    [][\A s \in Sites :
          /\ unlogged'[s] = 0
          /\ sends'[s] = events'[s]
          /\ (outcome[s] # "none" /\ ~(psPc = "none" /\ psPc' # "none")) =>
                outcome'[s] = outcome[s]
          /\ SendReturns(s) =>
                /\ upc'[s] # upc[s] \/ pending'[s] # pending[s]
                /\ upc'[s] \in {"signal", "probe", "alertProbe", "alertHTTP"}
                /\ sends'[s] <= sends[s] + 1
                /\ \A u \in Sites \ {s} : UnitState(u)' = UnitState(u)
                /\ << schedVars, chanVars >>' = << schedVars, chanVars >>
          /\ (psPc = "join" /\ psPc' = "none") => signals[s] = 1]_vars

\* In a tick-started call the mail of a breached threshold failed for one
\* site: its outcome is Success, nothing was sent twice, and it is about to
\* signal, while another site has ended with Success and has signalled.
C10_Witness ==
    /\ psPc = "join" /\ trigger # "none"
    /\ \E s \in Sites :
          /\ sendFailed[s] /\ upc[s] = "signal" /\ outcome[s] = "Success"
          /\ sends[s] >= 1
          /\ \E u \in Sites \ {s} :
                upc[u] = "done" /\ signals[u] = 1 /\ outcome[u] = "Success"

\* C11: within a call, the step that makes a unit's outcome Failure (failed
\* resolution, failed HTTP or SQL probe, unhandled protocol) calls
\* sendGmailAlert exactly once, at once; while the outcome stays Failure no
\* further send is made; and a new call starts every unit with no outcome and
\* no send counted, whatever the call before it ended with, so a site that
\* fails in k calls in a row is mailed k times.
C11_EveryFailureOneSend ==
    [][\A s \in Sites :
          /\ (outcome[s] # "Failure" /\ outcome'[s] = "Failure") =>
                /\ sends'[s] = sends[s] + 1
                /\ events'[s] = events[s] + 1
                /\ upc'[s] \in {"alertDNS", "alertProbe"}
          /\ (outcome[s] = "Failure" /\ outcome'[s] = "Failure") =>
                sends'[s] = sends[s]
          /\ (psPc = "none" /\ psPc' # "none") =>
                (sends'[s] = 0 /\ outcome'[s] = "none" /\ upc'[s] = "idle")]_vars

\* A tick-started call has returned in which one site failed its resolution
\* and another failed its probe, each with one send.
C11_Witness ==
    /\ psPc = "none" /\ mainPc = "select" /\ trigger # "none"
    /\ \E s \in Sites :
          /\ outcome[s] = "Failure" /\ resolves[s] = 1 /\ probes[s] = 0
          /\ sends[s] = 1
    /\ \E s \in Sites :
          /\ outcome[s] = "Failure" /\ probes[s] = 1 /\ sends[s] = 1

\* C12: no sendGmailAlert call is made for a site whose Recipients is empty.
C12_NoSendWithoutRecipients ==
    \A s \in Sites : conf.Sites[s].Recipients = {} => sends[s] = 0

\* C13: when resolveServer fails for a site, the outcome of the unit is
\* Failure in that very step and no other unit is touched by it; from then
\* on the unit only waits for the return of its alert call and goes to its
\* completion signal, without ever starting the probe; a unit waiting to
\* signal always has a receive of the join loop left for it, and it ends
\* only by delivering the signal.
C13_ResolutionFailureSkipsProbe ==
    [][\A s \in Sites :
          /\ (upc[s] = "resolveServer" /\ upc'[s] = "alertDNS") =>
                /\ outcome'[s] = "Failure" /\ probes'[s] = 0
                /\ \A u \in Sites \ {s} : UnitState(u)' = UnitState(u)
          /\ upc[s] = "alertDNS" =>
                /\ upc'[s] \in {"alertDNS", "signal"}
                /\ outcome'[s] = "Failure" /\ probes'[s] = 0
          /\ (upc[s] = "signal" /\ probes[s] = 0) =>
                (upc'[s] \in {"signal", "done"} /\ probes'[s] = 0)
          /\ upc'[s] = "signal" => (psPc' # "none" /\ i' < NSites)
          /\ (upc[s] = "signal" /\ upc'[s] = "done") =>
                signals'[s] = signals[s] + 1]_vars

\* A call has returned in which a site of a supported protocol failed its
\* resolution, was not probed and signalled, while another site was probed
\* and ended with Success.
C13_Witness ==
    /\ psPc = "none" /\ mainPc = "select"
    /\ \E s \in Sites :
          /\ outcome[s] = "Failure" /\ resolves[s] = 1 /\ probes[s] = 0
          /\ signals[s] = 1 /\ Supported(conf.Sites[s].Protocol)
          /\ \E u \in Sites \ {s} :
                probes[u] = 1 /\ outcome[u] = "Success" /\ signals[u] = 1

\* C14 (as claimed): under every configuration, a unit of a site whose
\* server is not an IP literal that has started its probe, or has ended, has
\* called resolveServer once before.
C14_AlwaysResolvedBeforeProbe ==
    \A s \in Sites :
       (/\ ~ParseIP(conf.Sites[s].Server)
        /\ (probes[s] >= 1 \/ upc[s] \in {"signal", "done"}))
          => resolves[s] = 1

\* C14 (amended): with ReportDNS set, the unit of a site whose server is not
\* an IP literal starts by calling resolveServer, and its probe starts only in
\* the step in which that call has returned without error or after the alert
\* of a slow resolution, the unit having no outcome yet; with ReportDNS not
\* set the dispatcher never calls resolveServer.
C14_ResolvedBeforeProbeWhenReportDNS ==
    [][\A s \in Sites :
          /\ (conf.ReportDNS /\ ~ParseIP(conf.Sites[s].Server)) =>
                /\ (upc[s] = "start" /\ upc'[s] # "start") =>
                      (upc'[s] = "resolveServer" /\ resolves'[s] = 1)
                /\ probes'[s] = probes[s] + 1 =>
                      /\ resolves[s] = 1
                      /\ upc[s] \in {"resolveServer", "alertDNSTime"}
                      /\ outcome'[s] = "none"
                /\ upc'[s] \in {"signal", "done"} => resolves'[s] = 1
          /\ ~conf.ReportDNS => resolves'[s] = 0]_vars

\* With ReportDNS set, in a tick-started call a site that is not an IP
\* literal is inside its probe after one resolveServer call.
C14_Witness ==
    /\ conf.ReportDNS /\ trigger # "none"
    /\ \E s \in Sites :
          /\ ~ParseIP(conf.Sites[s].Server)
          /\ upc[s] = "probe" /\ resolves[s] = 1 /\ probes[s] = 1

\* C15: for a site whose server is an IP literal the unit never calls
\* resolveServer, and when checkHTTPx has a response its tResolve is 0 and
\* no "dns" alert is mailed, the resolver timeout being positive.
C15_LiteralNeverResolved ==
    ParseIP(unitRun.site.Server) =>
       /\ unitRun.lookups = 0 /\ unitRun.resolved = "no"
       /\ unitRun.rt = "response" =>
             /\ unitRun.metrics.tResolve = 0
             /\ conf.ResolverTimeoutMillis > 0
             /\ \A k \in 1 .. Len(unitRun.alerts) :
                   unitRun.alerts[k].svc # "dns"

\* With ReportDNS set, the unit of an https site given by an IP literal has
\* ended with a response whose first byte came after the handshake.
C15_Witness ==
    /\ conf.ReportDNS /\ ParseIP(unitRun.site.Server)
    /\ unitRun.site.Protocol = "https"
    /\ unitRun.pc = "end" /\ unitRun.rt = "response"
    /\ unitRun.metrics.tTLS > 0 /\ unitRun.metrics.ttfb > unitRun.metrics.tTLS

\* C16: a resolveServer call that succeeds after at least
\* ResolverTimeoutMillis ms is mailed by the dispatcher as the first alert of
\* the unit and gives the unit no outcome; isServerUp is then called, the
\* probe of a handled protocol runs, and the unit ends with Failure exactly
\* when isServerUp returned an error.
C16_SlowResolutionNotFatal ==
    (unitRun.resolved = "ok" /\ unitRun.dur >= conf.ResolverTimeoutMillis) =>
       /\ Len(unitRun.alerts) >= 1
       /\ unitRun.alerts[1] =
             Alert(unitRun.site, "processSites", "dns", "limit")
       /\ unitRun.pc # "end" => unitRun.outcome = "none"
       /\ unitRun.pc = "end" =>
             /\ unitRun.probed = Supported(unitRun.site.Protocol)
             /\ (unitRun.outcome = "Failure") = (unitRun.err # NilErr)
             /\ (unitRun.outcome = "Success") = (unitRun.err = NilErr)

\* A resolution that took exactly ResolverTimeoutMillis ms was mailed, and the
\* unit ended with Success on an accepted response.
C16_Witness ==
    /\ unitRun.resolved = "ok" /\ unitRun.dur = conf.ResolverTimeoutMillis
    /\ unitRun.pc = "end" /\ unitRun.rt = "response"
    /\ unitRun.outcome = "Success" /\ unitRun.probed

\* The limits a finished unit has reached: "resolve" (in the dispatcher or in
\* checkHTTPx), "connection", "processing".
BreachedLimits ==
    LET u == unitRun
        m == unitRun.metrics
        got == unitRun.rt = "response"
    IN  (IF \/ (u.resolved = "ok" /\ u.dur >= conf.ResolverTimeoutMillis)
            \/ (got /\ m.tResolve >= conf.ResolverTimeoutMillis)
         THEN {"resolve"} ELSE {})
        \cup (IF got /\ m.tConnection + m.tTLS >= u.site.ConnectionTimeoutMillis
              THEN {"connection"} ELSE {})
        \cup (IF got /\ m.tProcessing >= u.site.TimeoutMillis
              THEN {"processing"} ELSE {})

\* Nothing makes the unit fail: the resolution, if made, succeeded, the
\* protocol is handled, and the probe got an accepted response or a row.
NoPrimaryFailure ==
    /\ unitRun.resolved # "error"
    /\ Supported(unitRun.site.Protocol)
    /\ unitRun.rt # "error"
    /\ unitRun.rt = "response" =>
          (unitRun.status = 200
             \/ (unitRun.status = 403 /\ unitRun.site.Accept403))
    /\ unitRun.rt = "no" => unitRun.err = NilErr

\* C17: a unit of a site with recipients that ended with nothing failing
\* and with only the resolve limit, or only the connection limit, reached
\* has the outcome Success and made exactly one sendGmailAlert call.
C17_OneBreachOneAlert ==
    (/\ unitRun.pc = "end" /\ NoPrimaryFailure
     /\ unitRun.site.Recipients # {}
     /\ BreachedLimits \in {{"resolve"}, {"connection"}})
       => (unitRun.outcome = "Success" /\ Len(unitRun.alerts) = 1)

\* The alerts mailed by checkHTTPx itself, in order.
AlertsOfCheckHTTPx ==
    SelectSeq(unitRun.alerts, LAMBDA a : a.by = "checkHTTPx")

\* C18: when checkHTTPx got a response, whatever its status, it has mailed
\* one alert for each of the three limits that the measured times reached,
\* and no other (for a site with recipients and a connection timeout).
C18_LimitsCheckedForEveryResponse ==
    (/\ unitRun.pc = "end" /\ unitRun.rt = "response"
     /\ unitRun.site.Recipients # {}
     /\ unitRun.site.ConnectionTimeoutMillis > 0) =>
       AlertsOfCheckHTTPx = ThresholdAlerts(unitRun.site, unitRun.metrics)

\* C19: when checkHTTPx got a response, the outcome is Success exactly when
\* the status is 200, or 403 with Accept403 set, whatever times were
\* measured; otherwise it is Failure and the error returned is the status
\* error with the status code.
C19_StatusClassification ==
    (unitRun.pc = "end" /\ unitRun.rt = "response") =>
       /\ (unitRun.outcome = "Success") =
             (unitRun.status = 200
                \/ (unitRun.status = 403 /\ unitRun.site.Accept403))
       /\ unitRun.outcome \in {"Success", "Failure"}
       /\ unitRun.outcome = "Failure" =>
             unitRun.err = [kind |-> "HTTP error : status",
                            code |-> unitRun.status]
       /\ unitRun.outcome = "Success" => unitRun.err = NilErr

\* A 403 response to a site that accepts 403 gave Success although its
\* processing time reached the timeout of the site.
C19_Witness ==
    /\ unitRun.pc = "end" /\ unitRun.rt = "response"
    /\ unitRun.status = 403 /\ unitRun.site.Accept403
    /\ unitRun.outcome = "Success"
    /\ unitRun.metrics.tProcessing >= unitRun.site.TimeoutMillis

\* C20: an HTTP probe that has started always ends.
C20_HTTPProbeEnds ==
    \A s \in Sites :
       (upc[s] = "probe" /\ IsHTTP(conf.Sites[s].Protocol))
          ~> (upc[s] # "probe")

\* C23: when the goroutine of one site has panicked, the process is still
\* running: the other units can end with their outcome, processSites can
\* return and main can select its next tick.
C23_FaultContained ==
    \A s \in Sites : upc[s] = "panicked" => mainPc # "crashed"

\* C21: an HTTP probe that has returned wrote exactly one record: the
\* timings when it got a response, whatever the status, and an error record
\* when it got none.
C21_OneRecordPerAttempt ==
    (unitRun.pc = "end" /\ unitRun.probed /\ IsHTTP(unitRun.site.Protocol)) =>
       /\ Len(unitRun.logs) = 1
       /\ unitRun.rt = "response" => unitRun.logs[1].what = "total"
       /\ unitRun.rt = "error" => unitRun.logs[1].level = "error"

\* The timeout isServerUp is to give a site of a handled protocol: the
\* configured value, or the default of the protocol when that value is 0.
Budget(s) ==
    LET st == conf.Sites[s]
    IN IF st.TimeoutMillis # 0 THEN st.TimeoutMillis
       ELSE CASE st.Protocol \in {"http", "https"} -> 5000
              [] st.Protocol = "mysql" -> 5000
              [] st.Protocol = "sqlserver" -> 5000
              [] OTHER -> 0

C24_SiblingsNeverWait ==
    \A u \in Sites :
       /\ (Running(u) /\ upc[u] # "signal") => ENABLED UnitStep(u)
       /\ upc[u] = "signal" => (ENABLED Receive(u) \/ ENABLED Launch)
       /\ (upc[u] = "idle" /\ psPc = "launch") => ENABLED Launch

\* In a tick-started call a unit is still inside its probe while another,
\* launched after it, has run and delivered its completion signal.
C24_Witness ==
    /\ psPc = "join" /\ trigger # "none"
    /\ \E s \in Sites :
          /\ upc[s] = "probe"
          /\ \E u \in Sites :
                u > s /\ upc[u] = "done" /\ signals[u] = 1 /\ probes[u] = 1

\* The protocol of the site is none that isServerUp handles.
Unhandled(s) ==
    conf.Sites[s].Protocol \notin {"http", "https", "mysql", "sqlserver"}

\* C25: the unit of a site of an unhandled protocol never starts a network
\* probe; when it reaches isServerUp its outcome becomes Failure and one
\* sendGmailAlert call is made, in a step that touches neither another unit
\* nor the dispatcher; it ends with Failure, and with no other send than
\* that one and the one of a slow resolution.
C25_UnhandledProtocolFails ==
    [][\A s \in Sites : Unhandled(s) =>
          /\ probes'[s] = 0 /\ upc'[s] # "probe"
          /\ (upc[s] \in {"start", "resolveServer", "alertDNSTime"}
                /\ upc'[s] \notin {upc[s], "resolveServer", "alertDNS",
                                   "alertDNSTime"}) =>
                /\ upc'[s] = "alertProbe" /\ outcome'[s] = "Failure"
                /\ sends'[s] = sends[s] + 1
                /\ \A u \in Sites \ {s} : UnitState(u)' = UnitState(u)
                /\ << schedVars, chanVars >>' = << schedVars, chanVars >>
          /\ upc'[s] \in {"signal", "done"} =>
                /\ outcome'[s] = "Failure"
                /\ sends'[s] \in {1, 2}
                /\ sends'[s] = 2 =>
                      (conf.ReportDNS /\ ~ParseIP(conf.Sites[s].Server))]_vars

\* A tick-started call has returned in which a site of an unhandled
\* protocol ended with Failure, unprobed, with one send, and another site
\* was probed and ended with Success.
C25_Witness ==
    /\ psPc = "none" /\ mainPc = "select" /\ trigger # "none"
    /\ \E s \in Sites :
          /\ Unhandled(s) /\ outcome[s] = "Failure" /\ probes[s] = 0
          /\ sends[s] = 1 /\ signals[s] = 1
          /\ \E u \in Sites \ {s} :
                probes[u] = 1 /\ outcome[u] = "Success" /\ signals[u] = 1

\* The unit has ended after a SQL probe.
SQLProbeEnded ==
    /\ unitRun.pc = "end" /\ unitRun.probed
    /\ unitRun.site.Protocol \in {"mysql", "sqlserver"}

\* C26: a SQL probe that has returned has closed the handle it opened, and
\* it opened one unless sqlx.Open failed: no handle is left open, whether
\* the probe returned nil, a query error or an expired deadline.
C26_HandleReleased ==
    SQLProbeEnded =>
       /\ unitRun.opened = (IF unitRun.fault = "open" THEN 0 ELSE 1)
       /\ unitRun.closed = unitRun.opened

\* A SQL Server probe has returned the error of an expired deadline, with
\* its handle opened and closed.
C26_Witness ==
    /\ SQLProbeEnded /\ unitRun.site.Protocol = "sqlserver"
    /\ unitRun.fault = "deadline" /\ unitRun.err # NilErr
    /\ unitRun.opened = 1 /\ unitRun.closed = 1

\* C27: the error a SQL probe returns says "connect" exactly when no
\* connection could be made, and "query" exactly when the query failed or
\* its deadline passed; this for every probe whose context, if it made one,
\* had a deadline in the future.
C27_FailureKindsDistinguished ==
    (SQLProbeEnded /\ (unitRun.fault = "open" \/ unitRun.deadline > 0)) =>
       /\ (unitRun.err.kind = "connect to database")
             = (unitRun.fault \in {"open", "unreachable"})
       /\ (unitRun.err.kind = "query database")
             = (unitRun.fault \in {"query", "deadline"})

\* C28: the deadline a SQL probe gave the context of its query is the
\* TimeoutMillis isServerUp resolved for the site, and so is not 0.
C28_DeadlineIsResolvedTimeout ==
    (SQLProbeEnded /\ unitRun.fault # "open") =>
       /\ unitRun.deadline = unitRun.site.TimeoutMillis
       /\ unitRun.deadline # 0

\* C29: a SQL probe that returned nil wrote exactly one info record, which
\* reports the time the query took; one that returned an error wrote none.
C29_SuccessLoggedOnce ==
    SQLProbeEnded =>
       LET infos == SelectSeq(unitRun.logs, LAMBDA l : l.level = "info")
       IN IF unitRun.err = NilErr
          THEN /\ Len(infos) = 1
               /\ infos[1].what = "total" /\ infos[1].ms = unitRun.elapsed
          ELSE Len(infos) = 0

\* C30: no step changes m.conf; the step in which a unit's timeout is
\* written changes the copy of that unit only; and every unit is launched
\* with the configured value, whatever earlier calls resolved.
C30_ConfigReadOnly ==
    [][/\ conf' = conf
       /\ \A s \in Sites :
             /\ (upc[s] # "probe" /\ upc'[s] = "probe") =>
                   \A u \in Sites \ {s} : site'[u] = site[u]
             /\ upc'[s] = "start" =>
                   site'[s] = conf.Sites[s].TimeoutMillis]_vars

\* In a tick-started call one unit has the default timeout in its copy, the
\* configuration still holds 0 for it, and another unit is inside its probe.
C30_Witness ==
    /\ trigger # "none"
    /\ \E s \in Sites :
          /\ conf.Sites[s].TimeoutMillis = 0 /\ site[s] = 5000
          /\ \E u \in Sites \ {s} : upc[u] = "probe"

\* C31: when checkHTTPx has its metrics, the resolve, connect, TLS and
\* processing durations and the time to first byte are all >= 0, and the
\* total is at least their sum, in whatever order and number the callbacks
\* of the trace were called.
C31_DurationsNonNegative ==
    unitRun.pc = "returned" =>
       LET m == unitRun.metrics
       IN /\ m.tResolve >= 0 /\ m.tConnection >= 0 /\ m.tTLS >= 0
          /\ m.tProcessing >= 0 /\ m.ttfb >= 0
          /\ unitRun.tTotal >= m.ttfb
          /\ unitRun.tTotal
                >= m.tResolve + m.tConnection + m.tTLS + m.tProcessing

\* The sendGmailAlert calls of checkHTTPx made with svc.
AlertsFor(svc) ==
    SelectSeq(unitRun.alerts,
              LAMBDA a : a.by = "checkHTTPx" /\ a.svc = svc)

\* C32: whatever the stamps are when the metrics are written, the
\* processing time is the time to first byte less the differences of the
\* TLS, connect and DNS stamps, the server total is connect + TLS +
\* processing, which is the time to first byte less the resolve time, and
\* the alert of the processing limit is sent exactly when that processing
\* time has reached site.TimeoutMillis.
C32_ProcessingDerivedFromTtfb ==
    unitRun.pc = "returned" =>
       LET m == unitRun.metrics
           s == unitRun.stamps
       IN /\ m.ttfb = s.tFirstByte - start
          /\ m.tProcessing =
                m.ttfb - (s.tTLSDone - s.tTLSStart)
                       - (s.tConnectDone - s.tConnectStart)
                       - (s.tDNSDone - s.tDNSStart)
          /\ m.tServer = m.tConnection + m.tTLS + m.tProcessing
          /\ m.tServer = m.ttfb - m.tResolve
          /\ (Len(AlertsFor(unitRun.site.Protocol)) = 1)
                = (m.tProcessing >= unitRun.site.TimeoutMillis)
          /\ Len(AlertsFor(unitRun.site.Protocol)) <= 1

\* An https round trip to a name has returned with a lookup, a connect and
\* a handshake that each took time, a first byte later than the processing
\* time, and the processing limit reached.
C32_Witness ==
    /\ unitRun.pc = "returned" /\ unitRun.site.Protocol = "https"
    /\ unitRun.metrics.tResolve > 0 /\ unitRun.metrics.tConnection > 0
    /\ unitRun.metrics.tTLS > 0
    /\ unitRun.metrics.tProcessing >= unitRun.site.TimeoutMillis
    /\ unitRun.metrics.ttfb > unitRun.metrics.tProcessing
    /\ Len(AlertsFor("https")) = 1

\* C33: a site with ConnectionTimeoutMillis 0 keeps that 0 as its limit,
\* and every round trip for it that got an accepted response makes the
\* "connection + TLS" sendGmailAlert call.
C33_NoConnectionDefault ==
    (unitRun.pc = "returned" /\ unitRun.site.ConnectionTimeoutMillis = 0) =>
       Len(AlertsFor("connection + TLS")) = 1

\* The units that still have their deferred ch <- true ahead of them: those
\* running, and those the range loop has yet to launch.
SendersLeft ==
    Cardinality({s \in Sites : Running(s)})
       + Cardinality({s \in 1 .. LenSites : upc[s] = "idle"})

\* C34: for a list of l sites, during a call the units that have yet to
\* send on ch are as many as the receives the join loop has yet to make, so
\* the loop never waits for a send that cannot come and a unit at its send
\* is received as soon as the loop is at its receive; the loop returns when
\* it has made l receives, at once when l is 0; and when processSites has
\* returned each of the l units has been received once and none is left at
\* its send.
C34_JoinCountsEveryUnit ==
    /\ psPc # "none" =>
          /\ SendersLeft = LenSites - i
          /\ (psPc = "join" /\ i < LenSites) => \E s \in Sites : Running(s)
          /\ (psPc = "join" /\ i = LenSites) => ENABLED Return
          /\ LenSites = 0 => psPc = "join"
          /\ \A s \in Sites :
                (psPc = "join" /\ upc[s] = "signal") => ENABLED Receive(s)
    /\ psPc = "none" =>
          \A s \in Sites :
             /\ upc[s] # "signal" /\ ~Running(s)
             /\ mainPc # "init" =>
                   signals[s] = (IF s <= LenSites THEN 1 ELSE 0)

\* A unit that returned early, after a failed resolution, has been received
\* by the join loop while a unit launched before it is still in its probe.
C34_Witness ==
    /\ psPc = "join" /\ i = 1 /\ LenSites = NSites
    /\ \E s \in Sites :
          /\ upc[s] = "done" /\ signals[s] = 1
          /\ resolves[s] = 1 /\ probes[s] = 0 /\ outcome[s] = "Failure"
          /\ \E u \in Sites : u < s /\ upc[u] = "probe"

\* C35: done, once closed, stays closed, whatever main and the units do; a
\* request that arrived during a call, the one made before the loop
\* included, has closed it; the return of a call brings main to its select;
\* at the select a closed done can be received whether or not a tick is
\* ready too; and main leaves the loop for no other reason.
C35_ShutdownNeverLost ==
    /\ [][/\ doneClosed => doneClosed'
          /\ (psPc = "join" /\ psPc' = "none") => mainPc' = "select"
          /\ (mainPc # "stopped" /\ mainPc' = "stopped") =>
                (doneClosed /\ mainPc = "select")]_vars
    /\ [](sigInFlight => doneClosed)
    /\ []((doneClosed /\ mainPc = "select") => ENABLED SelectDone)

\* The request came during the call made before the loop; that call has
\* returned and main is at its select with a tick ready and done closed.
C35_Witness ==
    /\ sigInFlight /\ doneClosed /\ trigger = "none"
    /\ psPc = "none" /\ mainPc = "select" /\ tickC # << >>

====
